---- MODULE Spec2Model ----
(***************************************************************************)
(* H3 boundary tracing (h3_toolkit/utils.py): the four face-adjacency      *)
(* tables, the upward trace (trace_cell_to_ancestor_faces and its one      *)
(* level wrapper), the coarsest-ancestor search and the downward           *)
(* enumeration (children_on_boundary_faces).                               *)
(*                                                                         *)
(* A cell is [base, digits]: the class of its resolution-0 base cell and   *)
(* one digit per resolution below it.  The grid library's operations used  *)
(* by the code (resolution, pentagon test, parent, children, child         *)
(* position) are operators over that representation.                       *)
(***************************************************************************)
EXTENDS Integers, Sequences, FiniteSets, TLC

\* Finest resolution of the cells the calls are made on.
MaxRes == 2

Faces == 1..6

\* A dict.get(key, default)
Get(d, k, default) == IF k \in DOMAIN d THEN d[k] ELSE default

\* The empty dict {}
EmptyDict == <<>>

(***************************************************************************)
(* The face-adjacency tables, [parity][child position] -> dict.            *)
(***************************************************************************)
_boundary_face_mapping_hex ==
  (0 :> ( (0 :> EmptyDict)
       @@ (1 :> ((2 :> 3) @@ (3 :> 1) @@ (1 :> 1)))
       @@ (2 :> ((4 :> 6) @@ (2 :> 2) @@ (6 :> 2)))
       @@ (3 :> ((6 :> 2) @@ (2 :> 3) @@ (3 :> 3)))
       @@ (4 :> ((1 :> 5) @@ (4 :> 4) @@ (5 :> 4)))
       @@ (5 :> ((1 :> 5) @@ (3 :> 1) @@ (5 :> 5)))
       @@ (6 :> ((4 :> 6) @@ (5 :> 4) @@ (6 :> 6))) ))
  @@
  (1 :> ( (0 :> EmptyDict)
       @@ (1 :> ((3 :> 3) @@ (1 :> 3) @@ (5 :> 1)))
       @@ (2 :> ((2 :> 6) @@ (6 :> 6) @@ (3 :> 2)))
       @@ (3 :> ((2 :> 2) @@ (1 :> 3) @@ (3 :> 2)))
       @@ (4 :> ((4 :> 5) @@ (5 :> 5) @@ (6 :> 4)))
       @@ (5 :> ((1 :> 1) @@ (4 :> 5) @@ (5 :> 1)))
       @@ (6 :> ((4 :> 4) @@ (2 :> 6) @@ (6 :> 4))) ))

_reversed_boundary_face_mapping_hex ==
  (0 :> ( (1 :> ((1 :> {1, 3}) @@ (3 :> {2})))
       @@ (2 :> ((2 :> {2, 6}) @@ (6 :> {4})))
       @@ (3 :> ((2 :> {6}) @@ (3 :> {2, 3})))
       @@ (4 :> ((4 :> {4, 5}) @@ (5 :> {1})))
       @@ (5 :> ((5 :> {1, 5}) @@ (1 :> {3})))
       @@ (6 :> ((4 :> {5}) @@ (6 :> {4, 6})))
       @@ (0 :> EmptyDict) ))
  @@
  (1 :> ( (1 :> ((3 :> {1, 3}) @@ (1 :> {5})))
       @@ (2 :> ((6 :> {2, 6}) @@ (2 :> {3})))
       @@ (3 :> ((2 :> {2, 3}) @@ (3 :> {1})))
       @@ (4 :> ((5 :> {4, 5}) @@ (4 :> {6})))
       @@ (5 :> ((1 :> {1, 5}) @@ (5 :> {4})))
       @@ (6 :> ((4 :> {4, 6}) @@ (6 :> {2})))
       @@ (0 :> EmptyDict) ))

_boundary_face_mapping_pent ==
  (0 :> ( (0 :> EmptyDict)
       @@ (1 :> ((4 :> 5) @@ (2 :> 1) @@ (6 :> 1)))
       @@ (2 :> ((6 :> 1) @@ (3 :> 2) @@ (2 :> 2)))
       @@ (3 :> ((5 :> 2) @@ (4 :> 2) @@ (6 :> 4)))
       @@ (4 :> ((3 :> 2) @@ (5 :> 4) @@ (1 :> 2)))
       @@ (5 :> ((5 :> 3) @@ (6 :> 5) @@ (4 :> 5)))
       @@ (6 :> EmptyDict) ))
  @@
  (1 :> ( (0 :> EmptyDict)
       @@ (1 :> ((2 :> 5) @@ (6 :> 5) @@ (3 :> 1)))
       @@ (2 :> ((3 :> 1) @@ (2 :> 1) @@ (1 :> 2)))
       @@ (3 :> ((1 :> 4) @@ (4 :> 3) @@ (5 :> 3)))
       @@ (4 :> ((1 :> 2) @@ (5 :> 2) @@ (4 :> 4)))
       @@ (5 :> ((2 :> 5) @@ (4 :> 3) @@ (6 :> 3)))
       @@ (6 :> EmptyDict) ))

_reversed_boundary_face_mapping_pent ==
  (0 :> ( (1 :> ((1 :> {2, 6}) @@ (5 :> {4})))
       @@ (2 :> ((1 :> {6}) @@ (2 :> {2, 3})))
       @@ (3 :> ((4 :> {1}) @@ (3 :> {4, 5})))
       @@ (4 :> ((4 :> {5}) @@ (2 :> {1, 3})))
       @@ (5 :> ((5 :> {4, 6}) @@ (3 :> {5})))
       @@ (6 :> EmptyDict)
       @@ (0 :> EmptyDict) ))
  @@
  (1 :> ( (1 :> ((5 :> {2, 6}) @@ (1 :> {3})))
       @@ (2 :> ((2 :> {1}) @@ (1 :> {2, 3})))
       @@ (3 :> ((3 :> {6}) @@ (4 :> {4, 5})))
       @@ (4 :> ((4 :> {4}) @@ (2 :> {1, 5})))
       @@ (5 :> ((5 :> {2}) @@ (3 :> {4, 6})))
       @@ (6 :> EmptyDict)
       @@ (0 :> EmptyDict) ))

\* The default value of every input_faces parameter.
DefaultFaces == {1, 2, 3, 4, 5, 6}

(***************************************************************************)
(* The grid library as the code uses it.                                   *)
(***************************************************************************)
\* h3.get_resolution
get_resolution(c) == Len(c.digits)

\* h3.is_pentagon: a pentagon base cell and its chain of centre children.
is_pentagon(c) ==
  c.base = "pent" /\ \A i \in 1..Len(c.digits) : c.digits[i] = 0

\* h3.cell_to_parent(c, r), r coarser than c
cell_to_parent(c, r) == [c EXCEPT !.digits = SubSeq(c.digits, 1, r)]

\* h3.cell_to_children(c, r) for r = resolution(c) + 1, in index order.
\* A pentagon has no child of digit 1.
cell_to_children(c, r) ==
  LET ds == IF is_pentagon(c) THEN <<0, 2, 3, 4, 5, 6>>
                              ELSE <<0, 1, 2, 3, 4, 5, 6>>
  IN [i \in 1..Len(ds) |-> [c EXCEPT !.digits = Append(c.digits, ds[i])]]

\* h3.cell_to_child_pos(c, r) for r = resolution(c) - 1: the index of c among
\* the children of its parent (0..6 under a hexagon, 0..5 under a pentagon).
cell_to_child_pos(c, r) ==
  LET d == c.digits[Len(c.digits)]
  IN IF is_pentagon(cell_to_parent(c, r)) /\ d > 0 THEN d - 1 ELSE d

Range(s) == {s[i] : i \in DOMAIN s}

BaseCells == {[base |-> "hex", digits |-> <<>>], [base |-> "pent", digits |-> <<>>]}

RECURSIVE CellsAt(_)
CellsAt(r) ==
  IF r = 0 THEN BaseCells
  ELSE UNION {Range(cell_to_children(c, r)) : c \in CellsAt(r - 1)}

Cells == UNION {CellsAt(r) : r \in 0..MaxRes}

(***************************************************************************)
(* State: the module-level objects (the four tables and the default        *)
(* input_faces set), the call being made with its arguments, the locals of *)
(* the coarsest-ancestor loop, and what the call returned or raised.       *)
(***************************************************************************)
VARIABLES
  tables,          \* the four module-level dicts
  default_faces,   \* the default input_faces object
  pc,              \* "idle", "loop" (in the while of the search), "done"
  fn,              \* the function called
  h,               \* its cell argument (h / parent)
  faces_arg,       \* <<F>> for an explicit input_faces, <<>> for the default
  res_arg,         \* <<r>> for res_parent / target_res, <<>> for None
  current_h,       \* locals of cell_to_coarsest_ancestor_on_faces
  res,
  input_faces,
  outcome,         \* [exc, value]: exception raised ("none" if none), value returned
  entered          \* the _children_by_face invocations of the call, in order

vars == <<tables, default_faces, pc, fn, h, faces_arg, res_arg,
          current_h, res, input_faces, outcome, entered>>

Returned(v) == [exc |-> "none", value |-> v]
Raised(e) == [exc |-> e, value |-> <<>>]

(***************************************************************************)
(* trace_cell_to_ancestor_faces                                            *)
(***************************************************************************)
\* The set comprehension that maps the faces having an entry.
map_faces_zero_based(face_map, in_faces) ==
  {face_map[f] - 1 : f \in {g \in in_faces : g \in DOMAIN face_map}}

map_faces(face_map, in_faces) ==
  {face_map[f] : f \in {g \in in_faces : g \in DOMAIN face_map}}

\* The parity that keys the forward table at the step from resolution r.
ascend_parity(r) == r % 2

\* The forward table chosen for the step into the parent.
forward_mapping_dict_always_hex(parent_is_pent) == tables.hex

forward_mapping_dict(parent_is_pent) ==
  IF parent_is_pent THEN tables.pent ELSE tables.hex

\* The for loop, res from h_res down to res_parent + 1, and the final return.
RECURSIVE trace_loop(_, _, _, _)
trace_loop(cur, r, res_parent, in_faces) ==
  IF r <= res_parent THEN in_faces
  ELSE IF is_pentagon(cur) THEN {}
  ELSE
    LET parity == ascend_parity(r)
        child_pos == cell_to_child_pos(cur, r - 1)
        parent == cell_to_parent(cur, r - 1)
        parent_is_pent == is_pentagon(parent)
        mapping_dict == forward_mapping_dict(parent_is_pent)
        face_map == Get(mapping_dict[parity], child_pos, EmptyDict)
        mapped_faces == map_faces(face_map, in_faces)
    IN IF child_pos = 0 THEN {}
       ELSE IF mapped_faces = {} THEN {}
       ELSE trace_loop(parent, r - 1, res_parent, mapped_faces)

\* Variant: res_parent equal to the cell's resolution is let through.
trace_cell_to_ancestor_faces_strict_check(c, in_faces, res_parent_arg) ==
  LET h_res == get_resolution(c)
      res_parent == IF res_parent_arg = <<>> THEN h_res - 1 ELSE res_parent_arg[1]
  IN IF res_parent > h_res THEN Raised("ValueError")
     ELSE IF res_parent < 0 THEN Raised("ValueError")
     ELSE IF in_faces = {} THEN Returned({})
     ELSE Returned(trace_loop(c, h_res, res_parent, in_faces))

\* Variant: an empty input_faces is replaced by all six faces.
trace_cell_to_ancestor_faces_empty_is_all(c, in_faces, res_parent_arg) ==
  LET h_res == get_resolution(c)
      res_parent == IF res_parent_arg = <<>> THEN h_res - 1 ELSE res_parent_arg[1]
      faces == IF in_faces = {} THEN DefaultFaces ELSE in_faces
  IN IF res_parent >= h_res THEN Raised("ValueError")
     ELSE IF res_parent < 0 THEN Raised("ValueError")
     ELSE Returned(trace_loop(c, h_res, res_parent, faces))

\* res_parent is <<r>> or <<>> (None).
trace_cell_to_ancestor_faces(c, in_faces, res_parent_arg) ==
  LET h_res == get_resolution(c)
      res_parent == IF res_parent_arg = <<>> THEN h_res - 1 ELSE res_parent_arg[1]
  IN IF res_parent >= h_res THEN Raised("ValueError")
     ELSE IF res_parent < 0 THEN Raised("ValueError")
     ELSE IF in_faces = {} THEN Returned({})
     ELSE Returned(trace_loop(c, h_res, res_parent, in_faces))

trace_cell_to_parent_faces(c, in_faces) ==
  LET parent_res == get_resolution(c) - 1
  IN trace_cell_to_ancestor_faces(c, in_faces, <<parent_res>>)

(***************************************************************************)
(* children_on_boundary_faces                                              *)
(***************************************************************************)
\* The test that ends the recursion.
at_target_one_early(r, target_res) == r >= target_res - 1

at_target(r, target_res) == r = target_res

\* The child's entry of the reverse table.
child_mapping_for_next_pos(reverse_mapping, child_pos) ==
  Get(reverse_mapping, child_pos + 1, EmptyDict)

child_mapping_for(reverse_mapping, child_pos) ==
  Get(reverse_mapping, child_pos, EmptyDict)

\* The test that decides whether a child is recursed into.
should_recurse_always(mapped_faces) == TRUE

should_recurse(mapped_faces) == mapped_faces # {}

\* The parity that keys the reverse table when the cell at resolution r is
\* subdivided.
descend_parity_of_parent(r) == r % 2

descend_parity(r) == (r + 1) % 2

\* The reverse table chosen for the cell being subdivided.
reverse_mapping_dict_always_hex(is_pent) == tables.rev_hex

reverse_mapping_dict(is_pent) ==
  IF is_pent THEN tables.rev_pent ELSE tables.rev_hex

\* Variant of the nested function: the recursion is made inside the loop over
\* the parent faces, once for every face the child's entry has.
RECURSIVE _children_by_face_per_face(_, _, _, _)
_children_by_face_per_face(current, r, faces, target_res) ==
  LET me == <<[cell |-> current, res |-> r, faces |-> faces]>>
  IN IF at_target(r, target_res) THEN [result |-> <<current>>, entered |-> me]
     ELSE
       LET reverse_mapping == reverse_mapping_dict(is_pentagon(current))[descend_parity(r)]
           children == cell_to_children(current, r + 1)
           RECURSIVE each_face(_, _, _, _)
           each_face(child, child_mapping, todo, acc) ==
             IF todo = {} THEN acc
             ELSE LET parent_face == CHOOSE f \in todo : \A g \in todo : f <= g
                      sub == _children_by_face_per_face(
                               child, r + 1, child_mapping[parent_face], target_res)
                  IN each_face(child, child_mapping, todo \ {parent_face},
                               [result |-> acc.result \o sub.result,
                                entered |-> acc.entered \o sub.entered])
           RECURSIVE each_child(_, _)
           each_child(i, acc) ==
             IF i > Len(children) THEN acc
             ELSE LET child_mapping ==
                        child_mapping_for(reverse_mapping,
                                          cell_to_child_pos(children[i], r))
                  IN each_child(i + 1,
                       each_face(children[i], child_mapping,
                                 {f \in faces : f \in DOMAIN child_mapping}, acc))
       IN each_child(1, [result |-> <<>>, entered |-> me])

\* The nested function; returns its result list together with the list of
\* its own invocations (current, res, faces), in call order.
RECURSIVE _children_by_face(_, _, _, _)
_children_by_face(current, r, faces, target_res) ==
  LET me == <<[cell |-> current, res |-> r, faces |-> faces]>>
  IN IF at_target(r, target_res) THEN [result |-> <<current>>, entered |-> me]
     ELSE
       LET parity == descend_parity(r)
           is_pent == is_pentagon(current)
           mapping_dict == reverse_mapping_dict(is_pent)
           reverse_mapping == mapping_dict[parity]
           children == cell_to_children(current, r + 1)
           mapped(child) ==
             LET child_pos == cell_to_child_pos(child, r)
                 child_mapping == child_mapping_for(reverse_mapping, child_pos)
             IN UNION {child_mapping[parent_face] :
                         parent_face \in {f \in faces : f \in DOMAIN child_mapping}}
           RECURSIVE each_child(_, _)
           each_child(i, acc) ==
             IF i > Len(children) THEN acc
             ELSE LET mapped_faces == mapped(children[i])
                  IN IF should_recurse(mapped_faces)
                     THEN LET sub == _children_by_face(children[i], r + 1,
                                                       mapped_faces, target_res)
                          IN each_child(i + 1,
                                        [result |-> acc.result \o sub.result,
                                         entered |-> acc.entered \o sub.entered])
                     ELSE each_child(i + 1, acc)
       IN each_child(1, [result |-> <<>>, entered |-> me])

\* Variant: target_res equal to the parent's resolution raises too.
children_on_boundary_faces_must_be_finer(parent, target_res, in_faces) ==
  LET res_parent == get_resolution(parent)
  IN IF target_res <= res_parent
     THEN [exc |-> "ValueError", value |-> <<>>, entered |-> <<>>]
     ELSE LET t == _children_by_face(parent, res_parent, in_faces, target_res)
          IN [exc |-> "none", value |-> t.result, entered |-> t.entered]

\* Returns [exc, value, entered].
children_on_boundary_faces(parent, target_res, in_faces) ==
  LET res_parent == get_resolution(parent)
  IN IF target_res < res_parent
     THEN [exc |-> "ValueError", value |-> <<>>, entered |-> <<>>]
     ELSE LET t == _children_by_face(parent, res_parent, in_faces, target_res)
          IN [exc |-> "none", value |-> t.result, entered |-> t.entered]

(***************************************************************************)
(* The calls.                                                              *)
(***************************************************************************)
FaceSets == SUBSET Faces

\* An input_faces argument: explicit, or left to the default.
FaceArgs == {<<>>} \cup {<<F>> : F \in FaceSets}

\* A res_parent argument: an integer, or None.
ResParentArgs == {<<>>} \cup {<<r>> : r \in (-1)..(MaxRes + 1)}

\* A target_res argument.
TargetResArgs == (-1)..MaxRes

FacesOf(fa) == IF fa = <<>> THEN default_faces ELSE fa[1]

NoCall == [exc |-> "none", value |-> <<>>]

\* The cell variables hold this between calls.
NoCell == [base |-> "none", digits |-> <<>>]

Init ==
  /\ tables = [hex |-> _boundary_face_mapping_hex,
               rev_hex |-> _reversed_boundary_face_mapping_hex,
               pent |-> _boundary_face_mapping_pent,
               rev_pent |-> _reversed_boundary_face_mapping_pent]
  /\ default_faces = DefaultFaces
  /\ pc = "idle"
  /\ fn = "none"
  /\ h = NoCell
  /\ faces_arg = <<>>
  /\ res_arg = <<>>
  /\ current_h = h
  /\ res = 0
  /\ input_faces = default_faces
  /\ outcome = NoCall
  /\ entered = <<>>

\* What every call does on entry: bind the arguments.
Enter(name, c, fa, ra) ==
  /\ fn' = name
  /\ h' = c
  /\ faces_arg' = fa
  /\ res_arg' = ra
  /\ current_h' = c
  /\ res' = get_resolution(c)
  /\ input_faces' = FacesOf(fa)
  /\ UNCHANGED <<tables, default_faces>>

Call_trace_cell_to_ancestor_faces ==
  /\ pc = "idle"
  /\ \E c \in Cells, fa \in FaceArgs, ra \in ResParentArgs :
       /\ Enter("trace_cell_to_ancestor_faces", c, fa, ra)
       /\ outcome' = trace_cell_to_ancestor_faces(c, FacesOf(fa), ra)
       /\ entered' = <<>>
       /\ pc' = "done"

Call_trace_cell_to_parent_faces ==
  /\ pc = "idle"
  /\ \E c \in Cells, fa \in FaceArgs :
       /\ Enter("trace_cell_to_parent_faces", c, fa, <<>>)
       /\ outcome' = trace_cell_to_parent_faces(c, FacesOf(fa))
       /\ entered' = <<>>
       /\ pc' = "done"

Call_children_on_boundary_faces ==
  /\ pc = "idle"
  /\ \E c \in Cells, fa \in FaceArgs, t \in TargetResArgs :
       /\ Enter("children_on_boundary_faces", c, fa, <<t>>)
       /\ LET r == children_on_boundary_faces(c, t, FacesOf(fa))
          IN /\ outcome' = [exc |-> r.exc, value |-> r.value]
             /\ entered' = r.entered
       /\ pc' = "done"

\* cell_to_coarsest_ancestor_on_faces, one action per loop iteration.
Call_cell_to_coarsest_ancestor_on_faces ==
  /\ pc = "idle"
  /\ \E c \in Cells, fa \in FaceArgs :
       /\ Enter("cell_to_coarsest_ancestor_on_faces", c, fa, <<>>)
       /\ outcome' = NoCall
       /\ entered' = <<>>
       /\ pc' = "loop"

\* The while condition.
coarsest_continues_at_zero == res >= 0

coarsest_continues == res > 0

\* Variant of the iteration: returns the parent that lost the faces.
Coarsest_iteration_returns_parent ==
  /\ pc = "loop"
  /\ coarsest_continues
  /\ LET parent_res == res - 1
         traced == trace_cell_to_ancestor_faces(current_h, input_faces, <<parent_res>>)
         boundary_faces == traced.value
     IN IF traced.exc # "none"
        THEN /\ outcome' = traced
             /\ pc' = "done"
             /\ UNCHANGED <<current_h, input_faces, res>>
        ELSE IF boundary_faces = {}
        THEN /\ outcome' = Returned(cell_to_parent(current_h, parent_res))
             /\ pc' = "done"
             /\ UNCHANGED <<current_h, input_faces, res>>
        ELSE /\ current_h' = cell_to_parent(current_h, parent_res)
             /\ input_faces' = boundary_faces
             /\ res' = parent_res
             /\ UNCHANGED <<outcome, pc>>
  /\ UNCHANGED <<tables, default_faces, fn, h, faces_arg, res_arg, entered>>

\* Variant of the iteration: the faces are narrowed in place, in the set the
\* caller passed or, when none was passed, in the shared default.
Coarsest_iteration_narrows_in_place ==
  /\ pc = "loop"
  /\ coarsest_continues
  /\ LET parent_res == res - 1
         traced == trace_cell_to_ancestor_faces(current_h, input_faces, <<parent_res>>)
         boundary_faces == traced.value
     IN IF traced.exc # "none"
        THEN /\ outcome' = traced
             /\ pc' = "done"
             /\ UNCHANGED <<current_h, input_faces, res, default_faces, faces_arg>>
        ELSE IF boundary_faces = {}
        THEN /\ outcome' = Returned(current_h)
             /\ pc' = "done"
             /\ UNCHANGED <<current_h, input_faces, res, default_faces, faces_arg>>
        ELSE /\ current_h' = cell_to_parent(current_h, parent_res)
             /\ input_faces' = boundary_faces
             /\ default_faces' = IF faces_arg = <<>> THEN boundary_faces
                                                    ELSE default_faces
             /\ faces_arg' = IF faces_arg = <<>> THEN faces_arg
                                                ELSE <<boundary_faces>>
             /\ res' = parent_res
             /\ UNCHANGED <<outcome, pc>>
  /\ UNCHANGED <<tables, fn, h, res_arg, entered>>

\* One iteration of the while loop.
Coarsest_iteration ==
  /\ pc = "loop"
  /\ coarsest_continues
  /\ LET parent_res == res - 1
         traced == trace_cell_to_ancestor_faces(current_h, input_faces, <<parent_res>>)
         boundary_faces == traced.value
     IN IF traced.exc # "none"
        THEN /\ outcome' = traced
             /\ pc' = "done"
             /\ UNCHANGED <<current_h, input_faces, res>>
        ELSE IF boundary_faces = {}
        THEN /\ outcome' = Returned(current_h)
             /\ pc' = "done"
             /\ UNCHANGED <<current_h, input_faces, res>>
        ELSE /\ current_h' = cell_to_parent(current_h, parent_res)
             /\ input_faces' = boundary_faces
             /\ res' = parent_res
             /\ UNCHANGED <<outcome, pc>>
  /\ UNCHANGED <<tables, default_faces, fn, h, faces_arg, res_arg, entered>>

\* The loop ends at resolution 0.
Coarsest_return ==
  /\ pc = "loop"
  /\ ~coarsest_continues
  /\ outcome' = Returned(current_h)
  /\ pc' = "done"
  /\ UNCHANGED <<tables, default_faces, fn, h, faces_arg, res_arg,
                 current_h, res, input_faces, entered>>

\* The caller has the result (or the exception); the next call can be made.
Call_finished ==
  /\ pc = "done"
  /\ pc' = "idle"
  /\ fn' = "none"
  /\ h' = NoCell
  /\ faces_arg' = <<>>
  /\ res_arg' = <<>>
  /\ current_h' = NoCell
  /\ res' = 0
  /\ input_faces' = default_faces
  /\ outcome' = NoCall
  /\ entered' = <<>>
  /\ UNCHANGED <<tables, default_faces>>

Next ==
  \/ Call_children_on_boundary_faces
  \/ Call_cell_to_coarsest_ancestor_on_faces
  \/ Call_trace_cell_to_parent_faces
  \/ Call_trace_cell_to_ancestor_faces
  \/ Coarsest_iteration
  \/ Coarsest_return
  \/ Call_finished

Spec == Init /\ [][Next]_vars

\* Only the coarsest-ancestor search is called.  The code is synchronous: once
\* called, each loop iteration and the return are taken.
NextCoarsest ==
  \/ Call_cell_to_coarsest_ancestor_on_faces
  \/ Coarsest_iteration
  \/ Coarsest_return
  \/ Call_finished

SpecCoarsest ==
  /\ Init
  /\ [][NextCoarsest]_vars
  /\ WF_vars(Coarsest_iteration)
  /\ WF_vars(Coarsest_return)

(***************************************************************************)
(* Properties.                                                             *)
(***************************************************************************)
\* The call of function name has returned or raised.
Finished(name) == pc = "done" /\ fn = name

\* The FaceSet the call was given.
GivenFaces == FacesOf(faces_arg)

\* The cells of a result list.
ResultCells == Range(outcome.value)

\* What Ascend with all six faces finds for cell c at the ancestor resolution a.
AllFacesTrace(c, a) == trace_cell_to_ancestor_faces(c, Faces, <<a>>).value

\* C1: round trip, ascend then descend.  When trace_cell_to_parent_faces of a
\* non-pentagon cell c at resolution r >= 1 with all six faces returns a
\* non-empty G, children_on_boundary_faces(parent(c, r-1), r, G) includes c.
C1_AscendThenDescend ==
  ( /\ Finished("trace_cell_to_parent_faces")
    /\ GivenFaces = Faces
    /\ get_resolution(h) >= 1
    /\ ~is_pentagon(h)
    /\ outcome.exc = "none"
    /\ outcome.value # {} )
  => LET r == get_resolution(h)
         down == children_on_boundary_faces(cell_to_parent(h, r - 1), r, outcome.value)
     IN down.exc = "none" /\ h \in Range(down.value)

\* A resolution-2 child of a pentagon (even parity) with a non-empty trace,
\* found again by the descent.
C1_Witness ==
  /\ Finished("trace_cell_to_parent_faces")
  /\ GivenFaces = Faces
  /\ get_resolution(h) = 2
  /\ ~is_pentagon(h)
  /\ is_pentagon(cell_to_parent(h, 1))
  /\ outcome.exc = "none"
  /\ outcome.value # {}
  /\ h \in Range(children_on_boundary_faces(cell_to_parent(h, 1), 2, outcome.value).value)

\* C2: round trip, descend then ascend.  Every cell returned by
\* children_on_boundary_faces(parent, target_res, F), target_res finer than the
\* parent and F non-empty, traces back (with all six faces) to a face set of
\* the parent that meets F.
C2_DescendThenAscend ==
  ( /\ Finished("children_on_boundary_faces")
    /\ outcome.exc = "none"
    /\ res_arg[1] > get_resolution(h)
    /\ GivenFaces # {} )
  => \A c \in ResultCells :
       AllFacesTrace(c, get_resolution(h)) \cap GivenFaces # {}

\* The target_res of a children_on_boundary_faces call.
TargetRes == res_arg[1]

\* Ascend from cell c with faces F to the ancestor resolution a.
Trace(c, F, a) == trace_cell_to_ancestor_faces(c, F, <<a>>)

\* C3: cell_to_coarsest_ancestor_on_faces(c, F), F non-empty, returns the
\* ancestor A of c (resolution a) that is the last one still on a requested
\* face: the trace of F from c to a is non-empty when a is coarser than c,
\* and the trace to every resolution coarser than a is empty.
C3_CoarsestIsLastOnFace ==
  ( /\ Finished("cell_to_coarsest_ancestor_on_faces")
    /\ GivenFaces # {} )
  => /\ outcome.exc = "none"
     /\ LET a == get_resolution(outcome.value)
        IN /\ a <= get_resolution(h)
           /\ outcome.value = cell_to_parent(h, a)
           /\ (a < get_resolution(h) => Trace(h, GivenFaces, a).value # {})
           /\ \A b \in 0..(a - 1) : Trace(h, GivenFaces, b).value = {}

\* The search climbed one level from a resolution-2 cell and stopped there.
C3_Witness ==
  /\ Finished("cell_to_coarsest_ancestor_on_faces")
  /\ GivenFaces # {}
  /\ get_resolution(h) = 2
  /\ outcome.exc = "none"
  /\ get_resolution(outcome.value) = 1
  /\ Trace(h, GivenFaces, 1).value # {}
  /\ Trace(h, GivenFaces, 0).value = {}

\* C4: trace_cell_to_ancestor_faces(cell, faces, res_parent) raises ValueError
\* exactly when res_parent >= resolution(cell) or res_parent < 0, whatever
\* the FaceSet (the empty one included); no other call raises.
C4_TraceRaisesExactly ==
  ( /\ Finished("trace_cell_to_ancestor_faces")
    /\ res_arg # <<>> )
  => /\ outcome.exc \in {"none", "ValueError"}
     /\ (outcome.exc = "ValueError")
          <=> (res_arg[1] >= get_resolution(h) \/ res_arg[1] < 0)

\* The call with the empty FaceSet and res_parent = resolution(cell) raised.
C4_Witness ==
  /\ Finished("trace_cell_to_ancestor_faces")
  /\ get_resolution(h) >= 1
  /\ res_arg = <<get_resolution(h)>>
  /\ faces_arg = <<{}>>
  /\ outcome.exc = "ValueError"

C6_EmptyFacesNoCells ==
  ( /\ Finished("children_on_boundary_faces")
    /\ TargetRes >= get_resolution(h)
    /\ GivenFaces = {} )
  => outcome.exc = "none" /\ outcome.value = <<>>

\* C7: trace_cell_to_ancestor_faces(c, {}, a) returns the empty set for every
\* cell c and every ancestor resolution 0 <= a < resolution(c).
C7_EmptyFacesTraceEmpty ==
  ( /\ Finished("trace_cell_to_ancestor_faces")
    /\ res_arg # <<>>
    /\ res_arg[1] >= 0
    /\ res_arg[1] < get_resolution(h)
    /\ GivenFaces = {} )
  => outcome = Returned({})

\* The empty FaceSet traced from a cell that does lie on its ancestor's
\* boundary.
C7_Witness ==
  /\ Finished("trace_cell_to_ancestor_faces")
  /\ faces_arg = <<{}>>
  /\ res_arg = <<0>>
  /\ get_resolution(h) = 2
  /\ AllFacesTrace(h, 0) # {}
  /\ outcome = Returned({})

\* C8: whatever the cell, the input FaceSet and the valid ancestor resolution,
\* the set returned by trace_cell_to_ancestor_faces and by
\* trace_cell_to_parent_faces is a subset of {1,...,6}.
C8_TraceWithinFaces ==
  ( /\ Finished("trace_cell_to_ancestor_faces") \/ Finished("trace_cell_to_parent_faces")
    /\ outcome.exc = "none" )
  => outcome.value \subseteq Faces

\* A two-level trace that returned several faces.
C8_Witness ==
  /\ Finished("trace_cell_to_ancestor_faces")
  /\ get_resolution(h) = 2
  /\ res_arg = <<0>>
  /\ outcome.exc = "none"
  /\ Cardinality(outcome.value) >= 2

\* C9: cell_to_coarsest_ancestor_on_faces ends for every cell (resolution 0
\* included) and every FaceSet (the empty one included), never raises, and
\* returns the input cell or one of its ancestors.
C9_CoarsestTerminates ==
  /\ [](Finished("cell_to_coarsest_ancestor_on_faces")
          => /\ outcome.exc = "none"
             /\ get_resolution(outcome.value) <= get_resolution(h)
             /\ outcome.value = cell_to_parent(h, get_resolution(outcome.value)))
  /\ ((pc = "loop") ~> Finished("cell_to_coarsest_ancestor_on_faces"))

\* The search climbed from resolution 2 to a resolution-0 cell and returned.
C9_Witness ==
  /\ Finished("cell_to_coarsest_ancestor_on_faces")
  /\ get_resolution(h) = 2
  /\ outcome.exc = "none"
  /\ get_resolution(outcome.value) = 0

\* C10: every cell returned by children_on_boundary_faces(parent, target_res,
\* faces) has resolution target_res and has parent as its ancestor at the
\* parent's resolution (so it is parent itself when the resolutions are
\* equal).
C10_ResultAtTargetResolution ==
  ( /\ Finished("children_on_boundary_faces")
    /\ outcome.exc = "none" )
  => \A c \in ResultCells :
       /\ get_resolution(c) = TargetRes
       /\ cell_to_parent(c, get_resolution(h)) = h

\* A descent over two levels that returned cells.
C10_Witness ==
  /\ Finished("children_on_boundary_faces")
  /\ outcome.exc = "none"
  /\ TargetRes = get_resolution(h) + 2
  /\ outcome.value # <<>>

\* C11: the list children_on_boundary_faces returns holds no cell twice, for
\* every parent, target_res and FaceSet.
C11_NoCellTwice ==
  ( /\ Finished("children_on_boundary_faces")
    /\ outcome.exc = "none" )
  => \A i, j \in DOMAIN outcome.value :
       outcome.value[i] = outcome.value[j] => i = j

\* A descent over two levels with several faces whose first level entered a
\* child that lies on two of the given faces, and that returned several cells.
C11_Witness ==
  /\ Finished("children_on_boundary_faces")
  /\ outcome.exc = "none"
  /\ TargetRes = get_resolution(h) + 2
  /\ Cardinality(GivenFaces) >= 2
  /\ Len(outcome.value) >= 2
  /\ \E i \in DOMAIN entered :
       /\ entered[i].res = get_resolution(h) + 1
       /\ LET child_mapping ==
                child_mapping_for(
                  reverse_mapping_dict(is_pentagon(h))[descend_parity(get_resolution(h))],
                  cell_to_child_pos(entered[i].cell, get_resolution(h)))
          IN Cardinality({f \in GivenFaces : f \in DOMAIN child_mapping}) = 2

\* The entry a table has for a digit, in a parity.
EntryOf(table, parity, digit) == Get(table[parity], digit, EmptyDict)

\* The digit of the resolution-k ancestor of c relative to its own parent.
DigitAt(c, k) == cell_to_child_pos(cell_to_parent(c, k), k - 1)

\* C12: digit-0 exclusion.  For every cell c that children_on_boundary_faces
\* returns with target_res above the parent's resolution, every cell on the
\* recursion path from the root's children down to c, c included, has a
\* non-zero digit relative to its immediate parent; and the entry for digit 0
\* is empty in the forward and the reverse tables, in both parities, so digit
\* 0 always maps to the empty FaceSet.
C12_DigitZeroExcluded ==
  /\ \A parity \in {0, 1} :
       /\ EntryOf(tables.hex, parity, 0) = EmptyDict
       /\ EntryOf(tables.pent, parity, 0) = EmptyDict
       /\ EntryOf(tables.rev_hex, parity, 0) = EmptyDict
       /\ EntryOf(tables.rev_pent, parity, 0) = EmptyDict
  /\ ( /\ Finished("children_on_boundary_faces")
       /\ outcome.exc = "none"
       /\ TargetRes > get_resolution(h) )
     => /\ \A c \in ResultCells :
            \A k \in (get_resolution(h) + 1)..TargetRes : DigitAt(c, k) # 0
        /\ \A i \in DOMAIN entered :
            i > 1 => cell_to_child_pos(entered[i].cell, entered[i].res - 1) # 0

\* A descent over two levels with all six faces, where the centre children
\* are the only ones left out at the first level, that returned cells.
C12_Witness ==
  /\ Finished("children_on_boundary_faces")
  /\ outcome.exc = "none"
  /\ GivenFaces = Faces
  /\ TargetRes = get_resolution(h) + 2
  /\ outcome.value # <<>>
  /\ \A c \in ResultCells : DigitAt(c, TargetRes - 1) # 0 /\ DigitAt(c, TargetRes) # 0

\* The descendants of cell c at resolution r.
Descendants(c, r) ==
  {d \in CellsAt(r) : cell_to_parent(d, get_resolution(c)) = c}

\* C13: for a non-pentagon resolution-0 cell, children_on_boundary_faces with
\* target_res 2 and all six faces returns a non-empty, strict subset of the
\* 49 resolution-2 descendants, without the centre descendant of the
\* resolution-1 centre child.
C13_HexBaseBoundaryIsStrictSubset ==
  ( /\ Finished("children_on_boundary_faces")
    /\ get_resolution(h) = 0
    /\ ~is_pentagon(h)
    /\ TargetRes = 2
    /\ GivenFaces = Faces )
  => /\ outcome.exc = "none"
     /\ Cardinality(Descendants(h, 2)) = 49
     /\ ResultCells # {}
     /\ ResultCells \subseteq Descendants(h, 2)
     /\ ResultCells # Descendants(h, 2)
     /\ [base |-> h.base, digits |-> <<0, 0>>] \in Descendants(h, 2) \ ResultCells

\* That call has returned, with the default faces too.
C13_Witness ==
  /\ Finished("children_on_boundary_faces")
  /\ get_resolution(h) = 0
  /\ ~is_pentagon(h)
  /\ TargetRes = 2
  /\ faces_arg = <<>>
  /\ Len(outcome.value) > 6
  /\ Len(outcome.value) < 49

\* The four tables as the module defines them.
ModuleTables ==
  [hex |-> _boundary_face_mapping_hex,
   rev_hex |-> _reversed_boundary_face_mapping_hex,
   pent |-> _boundary_face_mapping_pent,
   rev_pent |-> _reversed_boundary_face_mapping_pent]

\* C14: no step of any call of the three functions, returning or raising,
\* with explicit or defaulted faces, changes the four tables or the shared
\* default face set {1..6}, and none changes the FaceSet the caller passed
\* while the call runs.
C14_TablesAndDefaultsUnchanged ==
  [][ /\ tables = ModuleTables
      /\ tables' = tables
      /\ default_faces = Faces
      /\ default_faces' = default_faces
      /\ (pc = "loop" => faces_arg' = faces_arg) ]_vars

\* The search, called with the default faces, has narrowed its faces on the
\* way up and gone on; the default set is what it was.
C14_Witness ==
  /\ pc = "loop"
  /\ fn = "cell_to_coarsest_ancestor_on_faces"
  /\ faces_arg = <<>>
  /\ res < get_resolution(h)
  /\ input_faces # Faces
  /\ coarsest_continues
  /\ default_faces = Faces

\* The forward entry maps child face g to parent face f.
ForwardMaps(forward, parity, digit, g, f) ==
  LET face_map == EntryOf(forward, parity, digit)
  IN g \in DOMAIN face_map /\ face_map[g] = f

\* The reverse entry lists child face g under parent face f.
ReverseLists(reverse, parity, digit, f, g) ==
  LET child_mapping == EntryOf(reverse, parity, digit)
  IN f \in DOMAIN child_mapping /\ g \in child_mapping[f]

\* A forward table and a reverse table hold the same face pairs under the
\* same (parity, digit) keys.
ExactInverses(forward, reverse) ==
  \A parity \in {0, 1}, digit \in 0..6, f \in Faces, g \in Faces :
    ReverseLists(reverse, parity, digit, f, g)
      <=> ForwardMaps(forward, parity, digit, g, f)

\* C15: the forward and the reverse tables are exact inverses, for the
\* hexagon and for the pentagon variant, in each parity and for each digit:
\* child face g is listed in reverse[p][d][f] exactly when forward[p][d][g]
\* is f.
C15_TablesAreExactInverses ==
  /\ ExactInverses(tables.hex, tables.rev_hex)
  /\ ExactInverses(tables.pent, tables.rev_pent)

\* The node of the recursion that entered the node n (n is not the root).
CallerOf(n) ==
  entered[CHOOSE j \in DOMAIN entered :
            entered[j].cell = cell_to_parent(n.cell, n.res - 1)]

\* The child faces the reverse table of a parity gives child for the parent
\* faces F of its parent node.
ReverseStep(parity, parent_cell, child, F) ==
  LET reverse == IF is_pentagon(parent_cell) THEN tables.rev_pent ELSE tables.rev_hex
      child_mapping ==
        EntryOf(reverse, parity, cell_to_child_pos(child, get_resolution(child) - 1))
  IN UNION {child_mapping[f] : f \in F \cap DOMAIN child_mapping}

\* C16: for the level step between a parent at resolution k-1 and its child
\* at resolution k, the ascent keys the forward table by k mod 2 and the
\* descent keys the reverse table by (res + 1) mod 2 with res = k-1: the same
\* parity at every k >= 1.  So the faces every node of a descent is entered
\* with are those of the reverse table of the parity the ascent uses for the
\* node's resolution.
C16_SameParityBothWays ==
  /\ \A k \in 1..MaxRes :
       /\ ascend_parity(k) = k % 2
       /\ descend_parity(k - 1) = ascend_parity(k)
  /\ ( /\ Finished("children_on_boundary_faces")
       /\ outcome.exc = "none" )
     => \A i \in DOMAIN entered :
          i > 1 =>
            LET n == entered[i]
                caller == CallerOf(n)
            IN n.faces = ReverseStep(ascend_parity(n.res), caller.cell,
                                     n.cell, caller.faces)

\* A descent over two levels, one step of each parity, with fewer than six
\* faces, that returned cells.
C16_Witness ==
  /\ Finished("children_on_boundary_faces")
  /\ outcome.exc = "none"
  /\ TargetRes = get_resolution(h) + 2
  /\ Cardinality(GivenFaces) = 1
  /\ outcome.value # <<>>
  /\ \E i \in DOMAIN entered : entered[i].res = TargetRes

\* C17: the ascent over several levels is the composition of its steps and
\* fails closed.  For every cell c, FaceSet F and resolutions
\* 0 <= a < b < resolution(c), the trace of F from c to a is the trace, from
\* the ancestor of c at b to a, of the trace of F from c to b; and when that
\* intermediate FaceSet is empty the result is empty.
C17_TraceComposes ==
  ( /\ Finished("trace_cell_to_ancestor_faces")
    /\ res_arg # <<>>
    /\ res_arg[1] >= 0
    /\ res_arg[1] < get_resolution(h) )
  => LET a == res_arg[1]
     IN \A b \in (a + 1)..(get_resolution(h) - 1) :
          LET upto_b == Trace(h, GivenFaces, b)
              from_b == Trace(cell_to_parent(h, b), upto_b.value, a)
          IN /\ upto_b.exc = "none"
             /\ from_b.exc = "none"
             /\ outcome = Returned(from_b.value)
             /\ upto_b.value = {} => outcome = Returned({})

\* A two-level trace of a non-empty FaceSet that is empty because the first
\* step is, although the intermediate ancestor lies on its parent's boundary.
C17_Witness ==
  /\ Finished("trace_cell_to_ancestor_faces")
  /\ get_resolution(h) = 2
  /\ res_arg = <<0>>
  /\ GivenFaces # {}
  /\ Trace(h, GivenFaces, 1) = Returned({})
  /\ AllFacesTrace(cell_to_parent(h, 1), 0) # {}
  /\ outcome = Returned({})

\* The cell is one resolution above its immediate parent, to which the call
\* traces.
OneLevelTrace ==
  /\ get_resolution(h) >= 1
  /\ \/ Finished("trace_cell_to_parent_faces")
     \/ Finished("trace_cell_to_ancestor_faces")
          /\ res_arg \in {<<>>, <<get_resolution(h) - 1>>}

\* C18: at a step of the ascent where the current cell is not a pentagon and
\* its digit is not 0, the forward table is the pentagon one exactly when the
\* immediate parent is a pentagon and the hexagon one otherwise, it is keyed
\* by (resolution of the current cell mod 2, digit), and the result is
\* exactly the set of the mapped values of the input faces that have an
\* entry; when the current cell is a pentagon or its digit is 0 the result is
\* the empty FaceSet.
C18_AscendStep ==
  OneLevelTrace
  => LET k == get_resolution(h)
         parent == cell_to_parent(h, k - 1)
         digit == cell_to_child_pos(h, k - 1)
         forward == IF is_pentagon(parent) THEN tables.pent ELSE tables.hex
         face_map == forward[k % 2][digit]
     IN outcome =
          Returned(IF is_pentagon(h) \/ digit = 0 THEN {}
                   ELSE {face_map[f] : f \in GivenFaces \cap DOMAIN face_map})

\* A step into a pentagon parent from a child on its boundary, where one of
\* the input faces has an entry and another has none.
C18_Witness ==
  /\ OneLevelTrace
  /\ is_pentagon(cell_to_parent(h, get_resolution(h) - 1))
  /\ cell_to_child_pos(h, get_resolution(h) - 1) # 0
  /\ outcome.exc = "none"
  /\ outcome.value # {}
  /\ \E f \in GivenFaces :
       f \notin DOMAIN tables.pent[get_resolution(h) % 2]
                                  [cell_to_child_pos(h, get_resolution(h) - 1)]

\* The cells the recursion entered.
EnteredCells == {entered[i].cell : i \in DOMAIN entered}

\* C19: the pruning of the descent.  Every node (cell, res, faces) the
\* recursion enters, the root excepted, carries a non-empty FaceSet within
\* {1..6}; and a child of a node is recursed into exactly when the union of
\* the reverse-mapped child-face sets, over the faces that are both in the
\* node's FaceSet and in the child's table entry, is non-empty.
C19_DescendPrunes ==
  ( /\ Finished("children_on_boundary_faces")
    /\ outcome.exc = "none" )
  => /\ \A i \in DOMAIN entered :
          i > 1 => entered[i].faces # {} /\ entered[i].faces \subseteq Faces
     /\ \A i \in DOMAIN entered :
          LET n == entered[i]
          IN n.res < TargetRes =>
               \A child \in Range(cell_to_children(n.cell, n.res + 1)) :
                 child \in EnteredCells
                   <=> ReverseStep((n.res + 1) % 2, n.cell, child, n.faces) # {}

\* A descent over two levels in which a node below the root has a child that
\* was recursed into and a non-centre child that was pruned.
C19_Witness ==
  /\ Finished("children_on_boundary_faces")
  /\ outcome.exc = "none"
  /\ TargetRes = get_resolution(h) + 2
  /\ \E i \in DOMAIN entered :
       /\ i > 1
       /\ entered[i].res < TargetRes
       /\ \E c1, c2 \in Range(cell_to_children(entered[i].cell, TargetRes)) :
            /\ c1 \in EnteredCells
            /\ c2 \notin EnteredCells
            /\ cell_to_child_pos(c2, TargetRes - 1) # 0

\* Some forward-pentagon entry of the parity maps a child face to parent
\* face f.
ForwardPentPopulates(parity, f) ==
  \E digit \in 0..6, g \in Faces : ForwardMaps(tables.pent, parity, digit, g, f)

\* Some reverse-pentagon entry of the parity is keyed by parent face f.
ReversePentPopulates(parity, f) ==
  \E digit \in 0..6 : f \in DOMAIN EntryOf(tables.rev_pent, parity, digit)

\* C20: face 6, and no other face, is never populated for a pentagon parent.
\* In both parities no forward-pentagon entry maps to parent face 6 and no
\* reverse-pentagon entry is keyed by it, while each of the faces 1..5 is
\* mapped to and is a key; so a one-level trace to a pentagon parent never
\* contains 6, and children_on_boundary_faces from a pentagon with {6} to
\* any finer target_res returns no cells.
C20_PentagonFaceSixUnpopulated ==
  /\ \A parity \in {0, 1} :
       /\ ~ForwardPentPopulates(parity, 6)
       /\ ~ReversePentPopulates(parity, 6)
       /\ \A f \in 1..5 :
            ForwardPentPopulates(parity, f) /\ ReversePentPopulates(parity, f)
  /\ ( /\ OneLevelTrace
       /\ is_pentagon(cell_to_parent(h, get_resolution(h) - 1)) )
     => outcome.exc = "none" /\ 6 \notin outcome.value
  /\ ( /\ Finished("children_on_boundary_faces")
       /\ is_pentagon(h)
       /\ GivenFaces = {6}
       /\ TargetRes > get_resolution(h) )
     => outcome = Returned(<<>>)

\* A descent over two levels from a pentagon with the FaceSet {6}, which
\* returned no cells.
C20_Witness ==
  /\ Finished("children_on_boundary_faces")
  /\ is_pentagon(h)
  /\ faces_arg = <<{6}>>
  /\ TargetRes = get_resolution(h) + 2
  /\ outcome = Returned(<<>>)

\* The children of cell c, its centre child left out.
NonCentreChildren(c) ==
  {child \in Range(cell_to_children(c, get_resolution(c) + 1)) :
     cell_to_child_pos(child, get_resolution(c)) # 0}

\* C21: the descent by one level covers each parent face by exactly two
\* children.  For a hexagon parent and a single face f in 1..6, and for a
\* pentagon parent and a single face f in 1..5,
\* children_on_boundary_faces(parent, resolution(parent) + 1, {f}) returns
\* exactly 2 cells, in both parities; with all six faces it returns exactly
\* the non-centre children, 6 for a hexagon and 5 for a pentagon.
C21_OneLevelDescendCoversFaces ==
  ( /\ Finished("children_on_boundary_faces")
    /\ TargetRes = get_resolution(h) + 1 )
  => /\ outcome.exc = "none"
     /\ ( \E f \in Faces : GivenFaces = {f} /\ (is_pentagon(h) => f # 6) )
        => Len(outcome.value) = 2 /\ Cardinality(ResultCells) = 2
     /\ GivenFaces = Faces
        => /\ ResultCells = NonCentreChildren(h)
           /\ Len(outcome.value) = IF is_pentagon(h) THEN 5 ELSE 6

\* A pentagon at resolution 1 (its children have even parity) descended by
\* one level with a single face, which returned two of its children.
C21_Witness ==
  /\ Finished("children_on_boundary_faces")
  /\ is_pentagon(h)
  /\ get_resolution(h) = 1
  /\ TargetRes = 2
  /\ \E f \in 1..5 : faces_arg = <<{f}>>
  /\ Cardinality(ResultCells) = 2
  /\ ResultCells \subseteq NonCentreChildren(h)

====
